---- MODULE Spec2Model ----
(***************************************************************************)
(* A model of proto_matcher.py: structural signatures of protobuf types    *)
(* (generate_signatures / get_signature), their similarity score           *)
(* (compare_sigs), candidate ranking (get_matches, do_search) and the      *)
(* two-cursor sequential matching session (start_sequential_matching).     *)
(*                                                                         *)
(* Four specifications share the module:                                  *)
(*   SpecSession  start_sequential_matching driven by operator decisions   *)
(*   SpecSearch   do_search / get_matches on the loaded registries         *)
(*   SpecScore    compare_sigs on a pair of signatures                     *)
(*   SpecSig      generate_signatures on one descriptor set                *)
(* Each pins the variables of the others.                                  *)
(***************************************************************************)
EXTENDS Integers, Sequences, FiniteSets, Bags, TLC

VARIABLES
    \* ---- the loaded data of main(), shared by the session and the search
    ref_proto_list,     \* list[str]  reference names in declaration order
    obs_proto_list,     \* list[str]  obfuscated names in declaration order
    ref_signatures,     \* dict name -> Signature (reference registry)
    obs_signatures,     \* dict name -> Signature (obfuscated registry)
    exact_matches,      \* dict ref name -> obs name (main, lines 379-390)
    \* ---- start_sequential_matching
    seq_matches,        \* dict ref name -> obs name, the result mapping
    ref_i,              \* position of the for loop: 1-based index of ref_proto
    obs_index,          \* the obfuscated cursor, 0-based as in the code
    s_pc,               \* "idle", "for", "while", "score", "prompt", "done", "raised"
    s_err,              \* the exception that ended the session, "" if none
    seq_matches_json,   \* content of output/seq_matches.json, <<>> = not written
    last_paired_obs,    \* history: obs_index of the latest pairing made by comparison
    pending,            \* history: the latest skip decision not yet followed by a comparison
    \* ---- do_search / get_matches / compare_sigs
    q_pc,               \* "idle", "prompt", "crashed" (the shell); "args", "done" (a call)
    q_call,             \* the latest call: [op, text, sig1, sig2]
    q_out,              \* its outcome
    \* ---- generate_signatures
    descriptor_set,     \* the FileDescriptorSet, as a sequence of top-level types
    empty_to_bytes,     \* options DEFAULT_EMPTY_TO_BYTES
    proto2sig_map,      \* dict name -> Signature being built
    sig2proto_map,      \* dict Signature -> list of top-level names
    top_i,              \* position of the registration loop (line 304)
    stack,              \* the call stack of get_signature: a sequence of frames
    ret,                \* the value the latest get_signature call returned
    g_pc,               \* "idle", "top", "run", "top_ret", "done", "raised"
    g_err,              \* the exception that ended the run, "" if none
    computed            \* history: name -> how many times its canonicalization ran

dataVars == <<ref_proto_list, obs_proto_list, ref_signatures, obs_signatures, exact_matches>>
sessVars == <<seq_matches, ref_i, obs_index, s_pc, s_err, seq_matches_json,
              last_paired_obs, pending>>
searchVars == <<q_pc, q_call, q_out>>
sigVars == <<descriptor_set, empty_to_bytes, proto2sig_map, sig2proto_map, top_i,
             stack, ret, g_pc, g_err, computed>>
vars == <<dataVars, sessVars, searchVars, sigVars>>

----------------------------------------------------------------------------
(* Bounds of the model.                                                    *)

\* longest reference list
MaxRef == 3
\* longest obfuscated list
MaxObs == 3
\* most fields declared by the messages A and B of a descriptor set
MaxFields == 2
\* deepest call stack of get_signature the interpreter allows
\* (sys.getrecursionlimit(), 1000 by default)
RecursionLimit == 4

----------------------------------------------------------------------------
(* Signatures.  Python mixes FrozenMultiset, frozenset, MapEntry, None and *)
(* str in one dynamic type; here every signature is one record shape so    *)
(* that any two signatures can be compared for equality:                   *)
(*   kind "multiset": elems is the bag of field entries                    *)
(*   kind "enum":     vals is the set of enum numbers                      *)
(*   kind "map":      key and value hold one field entry each              *)
(*   kind "none":     Python None, returned for allow_alias enums          *)
(* A field entry is [label_type, signature]: signature is <<>> for a plain *)
(* str entry and <<sig>> for a FieldTuple.  Signatures of different kinds  *)
(* are different values here, the empty ones included.                     *)

NoneSig == [kind |-> "none", elems |-> EmptyBag, vals |-> {}, key |-> <<>>, value |-> <<>>]

FrozenMultiset(b) == [kind |-> "multiset", elems |-> b, vals |-> {}, key |-> <<>>, value |-> <<>>]

EnumSig(s) == [kind |-> "enum", elems |-> EmptyBag, vals |-> s, key |-> <<>>, value |-> <<>>]

MapEntry(k, v) == [kind |-> "map", elems |-> EmptyBag, vals |-> {}, key |-> <<k>>, value |-> <<v>>]

StrEntry(label_type) == [label_type |-> label_type, signature |-> <<>>]

FieldTuple(label_type, sig) == [label_type |-> label_type, signature |-> <<sig>>]

RECURSIVE ListToBag(_)
ListToBag(l) == IF l = <<>> THEN EmptyBag ELSE SetToBag({Head(l)}) (+) ListToBag(Tail(l))

Min(a, b) == IF a <= b THEN a ELSE b

Max(a, b) == IF a >= b THEN a ELSE b

RECURSIVE SumOver(_, _)
SumOver(S, f) == IF S = {} THEN 0
                 ELSE LET x == CHOOSE y \in S : TRUE IN f[x] + SumOver(S \ {x}, f)

\* len(sig); -1 stands for the TypeError of len(None)
SigLen(sig) ==
    CASE sig.kind = "none" -> -1
      [] sig.kind = "multiset" -> BagCardinality(sig.elems)
      [] sig.kind = "enum" -> Cardinality(sig.vals)
      [] OTHER -> 2

\* bool(sig): None and empty containers are falsy, a MapEntry is a 2-tuple
Truthy(sig) == SigLen(sig) > 0

\* len(sig1 & sig2); -1 stands for the TypeError of an unsupported operand.
\* A multiset and a frozenset intersect elementwise; field entries and enum
\* numbers are never equal, so the mixed intersection is empty.
IntersectionLen(sig1, sig2) ==
    CASE sig1.kind = "map" \/ sig2.kind = "map" -> -1
      [] sig1.kind = "multiset" /\ sig2.kind = "multiset" ->
            LET common == DOMAIN sig1.elems \cap DOMAIN sig2.elems
            IN  SumOver(common, [e \in common |-> Min(sig1.elems[e], sig2.elems[e])])
      [] sig1.kind = "enum" /\ sig2.kind = "enum" -> Cardinality(sig1.vals \cap sig2.vals)
      [] OTHER -> 0

Score(num, den) == [err |-> "", num |-> num, den |-> den]

Raised(e) == [err |-> e, num |-> 0, den |-> 1]

\* compare_sigs: the float (intersection / sig1_len) * (min / max) is kept as
\* the exact fraction num/den; an exception is reported in err.
compare_sigs_wrong_divisor(sig1, sig2) ==
    IF sig1.kind = "none" \/ sig2.kind = "none" THEN Raised("TypeError")
    ELSE LET sig1_len == SigLen(sig1)
             sig2_len == SigLen(sig2)
             intersection == IntersectionLen(sig1, sig2)
         IN  IF intersection < 0 THEN Raised("TypeError")
             ELSE IF Max(sig1_len, sig2_len) = 0 THEN Raised("ZeroDivisionError")
             ELSE IF sig2_len = 0 THEN Raised("ZeroDivisionError")
             ELSE Score(intersection * Min(sig1_len, sig2_len),
                        sig2_len * Max(sig1_len, sig2_len))

compare_sigs(sig1, sig2) ==
    IF sig1.kind = "none" \/ sig2.kind = "none" THEN Raised("TypeError")
    ELSE LET sig1_len == SigLen(sig1)
             sig2_len == SigLen(sig2)
             intersection == IntersectionLen(sig1, sig2)
         IN  IF intersection < 0 THEN Raised("TypeError")
             ELSE IF Max(sig1_len, sig2_len) = 0 THEN Raised("ZeroDivisionError")
             ELSE IF sig1_len = 0 THEN Raised("ZeroDivisionError")
             ELSE Score(intersection * Min(sig1_len, sig2_len),
                        sig1_len * Max(sig1_len, sig2_len))

\* score == 1
IsOne(score) == score.err = "" /\ score.num = score.den

----------------------------------------------------------------------------
(* Dicts are functions; d[k] = v adds or overwrites.                       *)

Put(d, k, v) == (k :> v) @@ d

\* list.index(x), 0-based; the lists of the model hold x
RECURSIVE IndexOf(_, _)
IndexOf(l, x) == IF Head(l) = x THEN 0 ELSE 1 + IndexOf(Tail(l), x)

InList(l, x) == \E i \in 1..Len(l) : l[i] = x

\* "." in name: the dotted names of nested types
IsNested(name) == name \in {"X.N", "A.N", "A.M", "A.K", "B.N", "B.M", "B.K"}

\* unique_protos of generate_signatures: the signatures owned by exactly one
\* top-level name (only the registration loop of line 304 fills sig2proto_map),
\* each with that name
unique_protos(sigs) ==
    LET top == {n \in DOMAIN sigs : ~IsNested(n)}
        owners(s) == {n \in top : sigs[n] = s}
        uniq == {s \in {sigs[n] : n \in top} : Cardinality(owners(s)) = 1}
    IN  [s \in uniq |-> CHOOSE n \in owners(s) : TRUE]

\* exact_matches of main: reference uniques whose signature is an obfuscated unique
ExactMatches(ref_sigs, obs_sigs) ==
    LET ref_uniques == unique_protos(ref_sigs)
        obs_uniques == unique_protos(obs_sigs)
        both == DOMAIN ref_uniques \cap DOMAIN obs_uniques
    IN  [r \in {ref_uniques[s] : s \in both} |->
            obs_uniques[CHOOSE s \in both : ref_uniques[s] = r]]

----------------------------------------------------------------------------
(* get_matches (lines 204-227).                                            *)

\* options THRESHOLD, as the fraction ThresholdNum / ThresholdDen
ThresholdNum == 1

ThresholdDen == 2

\* options MAX_DISPLAY_MATCHES
MAX_DISPLAY_MATCHES == 5

\* the loop of lines 209-213 over the registry in dict order; acc is
\* [err, score_map], score_map the list of <<name, score>> kept so far
RECURSIVE ScoreLoop(_, _, _, _)
ScoreLoop(order, match_sig, sigs, acc) ==
    IF order = <<>> \/ acc.err # "" THEN acc
    ELSE LET name == Head(order)
             score == compare_sigs(match_sig, sigs[name])
         IN  IF IsNested(name) THEN ScoreLoop(Tail(order), match_sig, sigs, acc)
             ELSE IF score.err # "" THEN [acc EXCEPT !.err = score.err]
             ELSE IF score.num * ThresholdDen < ThresholdNum * score.den
                  THEN ScoreLoop(Tail(order), match_sig, sigs, acc)
             ELSE ScoreLoop(Tail(order), match_sig, sigs,
                            [acc EXCEPT !.score_map = Append(@, <<name, score>>)])

\* sort_key(tup) = score + 0.5 * (1 - (index + 1) / len), as a fraction
SortKey(tup, proto_list) ==
    LET L == Len(proto_list)
        idx == IndexOf(proto_list, tup[1])
    IN  [num |-> tup[2].num * 2 * L + (L - idx - 1) * tup[2].den,
         den |-> tup[2].den * 2 * L]

KeyLess(a, b) == a.num * b.den < b.num * a.den

\* sorted(..., reverse=True): descending and stable
RECURSIVE SortedDesc(_, _)
SortedDesc(items, proto_list) ==
    IF items = <<>> THEN <<>>
    ELSE LET rest == SortedDesc(SubSeq(items, 1, Len(items) - 1), proto_list)
             x == items[Len(items)]
             k == SortKey(x, proto_list)
             \* x goes after every item whose key is not less than its own
             pos == Cardinality({i \in 1..Len(rest) :
                                   ~KeyLess(SortKey(rest[i], proto_list), k)})
         IN  SubSeq(rest, 1, pos) \o <<x>> \o SubSeq(rest, pos + 1, Len(rest))

\* get_matches: [err, matches], matches the list it prints
get_matches(match_sig, sigs, order, proto_list) ==
    LET scored == ScoreLoop(order, match_sig, sigs, [err |-> "", score_map |-> <<>>])
    IN  IF scored.err # "" THEN [err |-> scored.err, matches |-> <<>>]
        ELSE IF scored.score_map = <<>> THEN [err |-> "", matches |-> <<>>]
        ELSE IF \E i \in 1..Len(scored.score_map) :
                    ~InList(proto_list, scored.score_map[i][1])
             THEN [err |-> "ValueError", matches |-> <<>>]
        ELSE LET matches_sorted == SortedDesc(scored.score_map, proto_list)
             IN  [err |-> "",
                  matches |-> SubSeq(matches_sorted, 1,
                                     Min(MAX_DISPLAY_MATCHES, Len(matches_sorted)))]

\* dict order of a registry of the loaded data: the declaration order of its
\* list, a nested type registered (line 261) before the type that holds it
RECURSIVE DictOrder(_, _)
DictOrder(proto_list, sigs) ==
    IF proto_list = <<>> THEN <<>>
    ELSE LET name == Head(proto_list)
             nested == IF name = "X" /\ "X.N" \in DOMAIN sigs THEN <<"X.N">> ELSE <<>>
             own == IF name \in DOMAIN sigs THEN <<name>> ELSE <<>>
         IN  nested \o own \o DictOrder(Tail(proto_list), sigs)

----------------------------------------------------------------------------
(* The loaded data: two ordered name lists and a registry for each.        *)

RefNames == <<"A", "B", "C", "D", "E">>

ObsNames == <<"X", "Y", "Z", "V", "W">>

int32 == StrEntry("int32")

string == StrEntry("string")

\* the top-level signatures the loaded registries draw from
DataSigs == {NoneSig, FrozenMultiset(EmptyBag), FrozenMultiset(ListToBag(<<int32>>)),
             FrozenMultiset(ListToBag(<<int32, string>>))}

\* any subset of the names of a list has a signature
Registries(names) == UNION {[D -> DataSigs] : D \in SUBSET names}

\* a message X of the obfuscated set declares a nested message X.N
WithNested(sigs) ==
    IF "X" \in DOMAIN sigs /\ sigs["X"].kind = "multiset"
    THEN Put(sigs, "X.N", FrozenMultiset(ListToBag(<<int32>>)))
    ELSE sigs

Range(l) == {l[i] : i \in 1..Len(l)}

DataInit ==
    /\ \E n \in 0..MaxRef : ref_proto_list = SubSeq(RefNames, 1, n)
    /\ \E n \in 0..MaxObs : obs_proto_list = SubSeq(ObsNames, 1, n)
    /\ ref_signatures \in Registries(Range(ref_proto_list))
    /\ obs_signatures \in {WithNested(r) : r \in Registries(Range(obs_proto_list))}
    /\ exact_matches = ExactMatches(ref_signatures, obs_signatures)

DataIdle ==
    /\ ref_proto_list = <<>>
    /\ obs_proto_list = <<>>
    /\ ref_signatures = <<>>
    /\ obs_signatures = <<>>
    /\ exact_matches = <<>>

\* no skip decision is waiting for its comparison
NoSkip == [kind |-> "", ref |-> 0, obs |-> 0]

SessIdle ==
    /\ seq_matches = <<>>
    /\ ref_i = 0
    /\ obs_index = 0
    /\ s_pc = "idle"
    /\ s_err = ""
    /\ seq_matches_json = <<>>
    /\ last_paired_obs = -1
    /\ pending = NoSkip

NoCall == [op |-> "", text |-> "", sig1 |-> NoneSig, sig2 |-> NoneSig]

NoOut == [err |-> "", found |-> FALSE, exact |-> FALSE, matches |-> <<>>]

SearchIdle ==
    /\ q_pc = "idle"
    /\ q_call = NoCall
    /\ q_out = NoOut

SigIdle ==
    /\ descriptor_set = [message_type |-> <<>>, enum_type |-> <<>>]
    /\ empty_to_bytes = TRUE
    /\ proto2sig_map = <<>>
    /\ sig2proto_map = <<>>
    /\ top_i = 0
    /\ stack = <<>>
    /\ ret = NoneSig
    /\ g_pc = "idle"
    /\ g_err = ""
    /\ computed = <<>>

----------------------------------------------------------------------------
(* start_sequential_matching (lines 312-362).  s_pc is the position in the *)
(* code: "for" the head of the for loop (line 317), "while" the head of    *)
(* the while loop (line 331), "score" the comparison of line 339, "prompt" *)
(* the input() of line 352.  ref_i counts the reference entries the for    *)
(* loop has taken past the break of line 318; ref_proto is the latest.     *)

SessInit ==
    /\ seq_matches = <<>>
    /\ ref_i = 0
    /\ obs_index = 0
    /\ s_pc = "for"
    /\ s_err = ""
    /\ seq_matches_json = <<>>
    /\ last_paired_obs = -1
    /\ pending = NoSkip

\* the session touches nothing else
SessFrame == UNCHANGED <<dataVars, searchVars, sigVars>>

ref_proto == ref_proto_list[ref_i]

next_ref_proto == ref_proto_list[ref_i + 1]

obs_proto == obs_proto_list[obs_index + 1]

\* the guard of lines 318 and 331
ObsCursorAtEnd == obs_index + 1 >= Len(obs_proto_list)

\* lines 360-362: the mapping is written once the loop is left
Finish ==
    /\ s_pc' = "done"
    /\ seq_matches_json' = <<seq_matches>>

\* an exception leaves the function; nothing is written
Raise(e) ==
    /\ s_pc' = "raised"
    /\ s_err' = e

\* line 317: the reference list is exhausted
ForExhausted ==
    /\ SessFrame
    /\ s_pc = "for"
    /\ ref_i = Len(ref_proto_list)
    /\ Finish
    /\ UNCHANGED <<seq_matches, ref_i, obs_index, s_err, last_paired_obs, pending>>

\* line 318
ForBreak ==
    /\ SessFrame
    /\ s_pc = "for"
    /\ ref_i < Len(ref_proto_list)
    /\ ObsCursorAtEnd
    /\ Finish
    /\ UNCHANGED <<seq_matches, ref_i, obs_index, s_err, last_paired_obs, pending>>

\* line 319
ForSkipUnsigned ==
    /\ SessFrame
    /\ s_pc = "for"
    /\ ref_i < Len(ref_proto_list)
    /\ ~ObsCursorAtEnd
    /\ next_ref_proto \notin DOMAIN ref_signatures
    /\ ref_i' = ref_i + 1
    /\ UNCHANGED <<seq_matches, obs_index, s_pc, s_err, seq_matches_json,
                   last_paired_obs, pending>>

\* lines 322-327
ForExactMatch ==
    /\ SessFrame
    /\ s_pc = "for"
    /\ ref_i < Len(ref_proto_list)
    /\ ~ObsCursorAtEnd
    /\ next_ref_proto \in DOMAIN ref_signatures
    /\ next_ref_proto \in DOMAIN exact_matches
    /\ seq_matches' = Put(seq_matches, next_ref_proto, exact_matches[next_ref_proto])
    /\ ref_i' = ref_i + 1
    /\ UNCHANGED <<obs_index, s_pc, s_err, seq_matches_json, last_paired_obs, pending>>

\* lines 329-330
ForEnterWhile ==
    /\ SessFrame
    /\ s_pc = "for"
    /\ ref_i < Len(ref_proto_list)
    /\ ~ObsCursorAtEnd
    /\ next_ref_proto \in DOMAIN ref_signatures
    /\ next_ref_proto \notin DOMAIN exact_matches
    /\ ref_i' = ref_i + 1
    /\ s_pc' = "while"
    /\ UNCHANGED <<seq_matches, obs_index, s_err, seq_matches_json,
                   last_paired_obs, pending>>

\* line 331
WhileBreak ==
    /\ SessFrame
    /\ s_pc = "while"
    /\ ObsCursorAtEnd
    /\ s_pc' = "for"
    /\ UNCHANGED <<seq_matches, ref_i, obs_index, s_err, seq_matches_json,
                   last_paired_obs, pending>>

\* lines 333-335
WhileSkipUnsigned ==
    /\ SessFrame
    /\ s_pc = "while"
    /\ ~ObsCursorAtEnd
    /\ obs_proto \notin DOMAIN obs_signatures
    /\ obs_index' = obs_index + 1
    /\ UNCHANGED <<seq_matches, ref_i, s_pc, s_err, seq_matches_json,
                   last_paired_obs, pending>>

\* lines 336-338: ref_proto reaches the comparison with obs_proto
WhileCompare ==
    /\ SessFrame
    /\ s_pc = "while"
    /\ ~ObsCursorAtEnd
    /\ obs_proto \in DOMAIN obs_signatures
    /\ s_pc' = "score"
    /\ UNCHANGED <<seq_matches, ref_i, obs_index, s_err, seq_matches_json,
                   last_paired_obs, pending>>

SessionScore == compare_sigs(ref_signatures[ref_proto], obs_signatures[obs_proto])

SessionMatches ==
    get_matches(ref_signatures[ref_proto], obs_signatures,
                DictOrder(obs_proto_list, obs_signatures), obs_proto_list)

\* line 339 raises
CompareRaises ==
    /\ SessFrame
    /\ s_pc = "score"
    /\ SessionScore.err # ""
    /\ Raise(SessionScore.err)
    /\ pending' = NoSkip
    /\ UNCHANGED <<seq_matches, ref_i, obs_index, seq_matches_json, last_paired_obs>>

\* lines 340-343: the pairing recorded for a score of 1
AcceptPairing ==
    /\ seq_matches' = Put(seq_matches, ref_proto, obs_proto)
    /\ last_paired_obs' = obs_index
    /\ obs_index' = obs_index

CompareExact ==
    /\ SessFrame
    /\ s_pc = "score"
    /\ IsOne(SessionScore)
    /\ AcceptPairing
    /\ s_pc' = "for"
    /\ pending' = NoSkip
    /\ UNCHANGED <<ref_i, s_err, seq_matches_json>>

\* lines 345-349 raise: get_matches scores ref_sig against every candidate
CompareShowRaises ==
    /\ SessFrame
    /\ s_pc = "score"
    /\ SessionScore.err = ""
    /\ ~IsOne(SessionScore)
    /\ SessionMatches.err # ""
    /\ Raise(SessionMatches.err)
    /\ pending' = NoSkip
    /\ UNCHANGED <<seq_matches, ref_i, obs_index, seq_matches_json, last_paired_obs>>

\* lines 345-352: the pair and the ranked alternatives are shown, input() waits
CompareShow ==
    /\ SessFrame
    /\ s_pc = "score"
    /\ SessionScore.err = ""
    /\ ~IsOne(SessionScore)
    /\ SessionMatches.err = ""
    /\ s_pc' = "prompt"
    /\ pending' = NoSkip
    /\ UNCHANGED <<seq_matches, ref_i, obs_index, s_err, seq_matches_json, last_paired_obs>>

\* line 353: keep == "1"
SkipRef ==
    /\ SessFrame
    /\ s_pc = "prompt"
    /\ s_pc' = "for"
    /\ pending' = [kind |-> "1", ref |-> ref_i, obs |-> obs_index]
    /\ UNCHANGED <<seq_matches, ref_i, obs_index, s_err, seq_matches_json, last_paired_obs>>

\* lines 354-356: keep == "2"
SkipObs ==
    /\ SessFrame
    /\ s_pc = "prompt"
    /\ obs_index' = obs_index + 1
    /\ s_pc' = "while"
    /\ pending' = [kind |-> "2", ref |-> ref_i, obs |-> obs_index + 1]
    /\ UNCHANGED <<seq_matches, ref_i, s_err, seq_matches_json, last_paired_obs>>

\* lines 357-358: any other input keeps the pair
Keep ==
    /\ SessFrame
    /\ s_pc = "prompt"
    /\ AcceptPairing
    /\ s_pc' = "for"
    /\ UNCHANGED <<ref_i, s_err, seq_matches_json, pending>>

SessNext ==
    \/ ForExhausted
    \/ ForBreak
    \/ ForSkipUnsigned
    \/ ForExactMatch
    \/ ForEnterWhile
    \/ WhileBreak
    \/ WhileSkipUnsigned
    \/ WhileCompare
    \/ CompareRaises
    \/ CompareExact
    \/ CompareShowRaises
    \/ CompareShow
    \/ SkipRef
    \/ SkipObs
    \/ Keep

InitSession == DataInit /\ SessInit /\ SearchIdle /\ SigIdle

SpecSession == InitSession /\ [][SessNext]_vars

----------------------------------------------------------------------------
(* Claims about the session.                                               *)

\* C1: whenever the reference entry is paired with the entry at the
\* obfuscated cursor (score 1, or the operator keeps the pair), the pairing
\* is in the result mapping and both cursors advance: a reference entry that
\* reaches the comparison step is never compared against the obfuscated
\* entry of the latest pairing again.
C1_PairingAdvancesBothCursors ==
    /\ last_paired_obs >= 0 =>
          obs_proto_list[last_paired_obs + 1] \in {seq_matches[r] : r \in DOMAIN seq_matches}
    /\ s_pc = "score" => obs_index > last_paired_obs

\* C2: when the session has ended, every reference name of the list that has
\* a signature and a cross-set exact-unique match is recorded with that match,
\* whatever the position of the obfuscated cursor and the length of the
\* obfuscated list.
C2_ExactMatchesAlwaysRecorded ==
    s_pc = "done" =>
        \A i \in 1..Len(ref_proto_list) :
            LET r == ref_proto_list[i]
            IN  (r \in DOMAIN ref_signatures /\ r \in DOMAIN exact_matches) =>
                    (r \in DOMAIN seq_matches /\ seq_matches[r] = exact_matches[r])

\* C3: the session ends only when the obfuscated cursor has moved past the
\* last obfuscated entry or the reference list is exhausted.
C3_EndsOnlyAtEndOfAList ==
    s_pc = "done" =>
        (obs_index >= Len(obs_proto_list) \/ ref_i = Len(ref_proto_list))

\* C4: after skip-reference the next comparison is of a later reference entry
\* against the same obfuscated entry; after skip-obfuscated the cursor is one
\* further and, that next entry being there with a signature, the same
\* reference entry stays current until it is compared against it.
C4_SkipRetriesTheOtherSide ==
    /\ (pending.kind = "1" /\ s_pc = "score") =>
          (obs_index = pending.obs /\ ref_i > pending.ref)
    /\ (/\ pending.kind = "2"
        /\ pending.obs < Len(obs_proto_list)
        /\ obs_proto_list[pending.obs + 1] \in DOMAIN obs_signatures) =>
          (ref_i = pending.ref /\ obs_index = pending.obs /\ s_pc \in {"while", "score"})

----------------------------------------------------------------------------
(* do_search (lines 400-427), a command of the shell.  An exception is not *)
(* caught by cmdloop: the shell ends.                                      *)

SearchFrame == UNCHANGED <<dataVars, sessVars, sigVars>>

\* the outcome of do_search(text)
do_search(text) ==
    LET on_ref == text \in DOMAIN ref_signatures
        on_obs == text \in DOMAIN obs_signatures
        match_sig == IF on_ref THEN ref_signatures[text] ELSE obs_signatures[text]
        sigs == IF on_ref THEN obs_signatures ELSE ref_signatures
        proto_list == IF on_ref THEN obs_proto_list ELSE ref_proto_list
        got == get_matches(match_sig, sigs, DictOrder(proto_list, sigs), proto_list)
    IN  IF ~on_ref /\ ~on_obs THEN NoOut
        \* line 418: len(match_sig)
        ELSE IF match_sig.kind = "none" THEN [NoOut EXCEPT !.err = "TypeError", !.found = TRUE]
        ELSE IF text \in DOMAIN exact_matches THEN [NoOut EXCEPT !.found = TRUE, !.exact = TRUE]
        ELSE [err |-> got.err, found |-> TRUE, exact |-> FALSE, matches |-> got.matches]

SearchTarget(text) ==
    IF text \in DOMAIN ref_signatures THEN ref_signatures[text]
    ELSE IF text \in DOMAIN obs_signatures THEN obs_signatures[text]
    ELSE NoneSig

SearchTexts == Range(ref_proto_list) \cup DOMAIN obs_signatures \cup {"Nope"}

Search ==
    /\ SearchFrame
    /\ q_pc = "prompt"
    /\ \E text \in SearchTexts :
          /\ q_call' = [op |-> "search", text |-> text,
                        sig1 |-> SearchTarget(text), sig2 |-> NoneSig]
          /\ q_out' = do_search(text)
          /\ q_pc' = IF do_search(text).err = "" THEN "prompt" ELSE "crashed"

InitSearch ==
    /\ DataInit /\ SessIdle /\ SigIdle
    /\ q_pc = "prompt"
    /\ q_call = NoCall
    /\ q_out = NoOut

SearchNext == Search

SpecSearch == InitSearch /\ [][SearchNext]_vars

----------------------------------------------------------------------------
(* compare_sigs (lines 191-202) applied to a pair of signatures.           *)

\* most elements of a signature scored
MaxSigLen == 3

message_int32 == FieldTuple("message", FrozenMultiset(ListToBag(<<int32>>)))

ScoreEntries == {int32, string, message_int32}

EnumNumbers == {0, 1}

RECURSIVE BagsUpTo(_)
BagsUpTo(n) ==
    IF n = 0 THEN {EmptyBag}
    ELSE LET smaller == BagsUpTo(n - 1)
         IN  smaller \cup {b (+) SetToBag({e}) : b \in smaller, e \in ScoreEntries}

ScoreSigs ==
    {FrozenMultiset(b) : b \in BagsUpTo(MaxSigLen)}
        \cup {EnumSig(v) : v \in SUBSET EnumNumbers}
        \cup {NoneSig, MapEntry(int32, string)}

ScoreFrame == UNCHANGED <<dataVars, sessVars, sigVars>>

Compare ==
    /\ ScoreFrame
    /\ q_pc = "args"
    /\ q_out' = compare_sigs(q_call.sig1, q_call.sig2)
    /\ q_pc' = "done"
    /\ UNCHANGED q_call

InitScore ==
    /\ DataIdle /\ SessIdle /\ SigIdle
    /\ q_pc = "args"
    /\ \E sig1 \in ScoreSigs, sig2 \in ScoreSigs :
          q_call = [op |-> "compare_sigs", text |-> "", sig1 |-> sig1, sig2 |-> sig2]
    /\ q_out = Raised("")

ScoreNext == Compare

SpecScore == InitScore /\ [][ScoreNext]_vars

----------------------------------------------------------------------------
(* Claims about scoring.                                                   *)

\* C5: a search whose target signature has no elements, or is the None of an
\* alias enum, raises nothing; the target is treated as unscoreable.
C5_ZeroCardinalityNeverRaises ==
    (/\ q_call.op = "search"
     /\ q_out.found
     /\ SigLen(q_call.sig1) <= 0) => q_out.err = ""

\* |X| of the scoring formula, for a set or multiset signature
Card(sig) == IF sig.kind = "multiset" THEN BagCardinality(sig.elems) ELSE Cardinality(sig.vals)

\* the copies of the elements of a set or multiset signature, told apart
Copies(sig) == {c \in (DOMAIN sig.elems) \X (1..BagCardinality(sig.elems)) :
                    c[2] <= sig.elems[c[1]]}

\* |A /\ B| with each shared element counted up to its smaller multiplicity
CommonCard(a, b) ==
    IF a.kind # b.kind THEN 0
    ELSE IF a.kind = "enum" THEN Cardinality(a.vals \cap b.vals)
    ELSE Cardinality(Copies(a) \cap Copies(b))

Scoreable(sig) == sig.kind \in {"multiset", "enum"} /\ Card(sig) > 0

\* C6: for non-empty set or multiset signatures A and B, compare_sigs(A, B) is
\* (|A /\ B| / |A|) * (min(|A|,|B|) / max(|A|,|B|)), it lies in [0,1], and
\* compare_sigs(S, S) is 1.
C6_ScoreIsTheFormula ==
    (q_pc = "done" /\ Scoreable(q_call.sig1) /\ Scoreable(q_call.sig2)) =>
        LET A == q_call.sig1
            B == q_call.sig2
        IN  /\ q_out.err = ""
            /\ q_out.den > 0
            /\ q_out.num * (Card(A) * Max(Card(A), Card(B)))
                 = (CommonCard(A, B) * Min(Card(A), Card(B))) * q_out.den
            /\ 0 <= q_out.num
            /\ q_out.num <= q_out.den
            /\ (A = B => IsOne(q_out))

\* a multiset with a repeated field scored against a different multiset it
\* shares elements with: a score strictly between 0 and 1
C6_Witness ==
    /\ q_pc = "done"
    /\ Scoreable(q_call.sig1) /\ Scoreable(q_call.sig2)
    /\ q_call.sig1.kind = "multiset"
    /\ \E e \in DOMAIN q_call.sig1.elems : q_call.sig1.elems[e] = 2
    /\ q_call.sig1 # q_call.sig2
    /\ 0 < q_out.num
    /\ q_out.num < q_out.den

----------------------------------------------------------------------------
(* Descriptors.  A DescriptorProto and an EnumDescriptorProto share one    *)
(* record shape; a FileDescriptorSet is its messages and its enums.        *)

Message(name, field, nested_type, enum_type, oneof_decl, map_entry) ==
    [kind |-> "message", name |-> name, field |-> field, nested_type |-> nested_type,
     enum_type |-> enum_type, oneof_decl |-> oneof_decl, map_entry |-> map_entry,
     value |-> <<>>, allow_alias |-> FALSE]

Enum(name, value, allow_alias) ==
    [kind |-> "enum", name |-> name, field |-> <<>>, nested_type |-> <<>>,
     enum_type |-> <<>>, oneof_decl |-> 0, map_entry |-> FALSE,
     value |-> value, allow_alias |-> allow_alias]

\* a FieldDescriptorProto: type_name "" and oneof_index -1 are unset fields
Field(label, type, type_name, oneof_index) ==
    [label |-> label, type |-> type, type_name |-> type_name, oneof_index |-> oneof_index]

\* the fields a message of the model may declare, by what they refer to
FieldShapes == {"int32", "oneof_int32", "oneof_string", "N", "M", "K", "E", "C", "self"}

ShapeField(shape, owner) ==
    CASE shape = "int32" -> Field("optional", "int32", "", -1)
      [] shape = "oneof_int32" -> Field("optional", "int32", "", 0)
      [] shape = "oneof_string" -> Field("optional", "string", "", 0)
      [] shape = "N" -> Field("optional", "message", owner \o ".N", -1)
      [] shape = "M" -> Field("repeated", "message", owner \o ".M", -1)
      [] shape = "K" -> Field("optional", "enum", owner \o ".K", -1)
      [] shape = "E" -> Field("optional", "enum", "E", -1)
      [] shape = "C" -> Field("required", "message", "C", -1)
      [] OTHER -> Field("optional", "message", owner, -1)

EnumOfKind(name, kind) ==
    CASE kind = "alias" -> Enum(name, <<0, 0>>, TRUE)
      [] kind = "empty" -> Enum(name, <<>>, FALSE)
      [] OTHER -> Enum(name, <<0, 1>>, FALSE)

\* the types around A and B: N may have no fields, the enums K and E may be
\* alias-bearing or empty, the map helper of B may declare value before key
Surroundings ==
    {[n_empty |-> FALSE, k |-> "plain", e |-> "plain", m_swap |-> FALSE],
     [n_empty |-> TRUE, k |-> "plain", e |-> "plain", m_swap |-> FALSE],
     [n_empty |-> FALSE, k |-> "alias", e |-> "plain", m_swap |-> FALSE],
     [n_empty |-> FALSE, k |-> "empty", e |-> "plain", m_swap |-> FALSE],
     [n_empty |-> FALSE, k |-> "plain", e |-> "alias", m_swap |-> FALSE],
     [n_empty |-> FALSE, k |-> "plain", e |-> "empty", m_swap |-> FALSE],
     [n_empty |-> FALSE, k |-> "plain", e |-> "plain", m_swap |-> TRUE]}

\* message `owner` with the given field shapes; it nests a message N, a map
\* helper M and an enum K
Outer(owner, shapes, around, swap) ==
    LET key == Field("optional", "int32", "", -1)
        val == Field("optional", "string", "", -1)
    IN  Message(owner,
                [i \in 1..Len(shapes) |-> ShapeField(shapes[i], owner)],
                <<Message("N", IF around.n_empty THEN <<>> ELSE <<key>>, <<>>, <<>>, 0, FALSE),
                  Message("M", IF swap THEN <<val, key>> ELSE <<key, val>>,
                          <<>>, <<>>, 0, TRUE)>>,
                <<EnumOfKind("K", around.k)>>,
                IF \E i \in 1..Len(shapes) : shapes[i] \in {"oneof_int32", "oneof_string"}
                THEN 1 ELSE 0,
                FALSE)

ShapeLists == UNION {[1..n -> FieldShapes] : n \in 0..MaxFields}

\* A, then B declaring the fields of A in another order, then C; the enum E
DescriptorSet(shapes, p, around) ==
    [message_type |-> <<Outer("A", shapes, around, FALSE),
                        Outer("B", [i \in 1..Len(shapes) |-> shapes[p[i]]], around,
                              around.m_swap),
                        Message("C", <<Field("optional", "int32", "", -1)>>,
                                <<>>, <<>>, 0, FALSE)>>,
     enum_type |-> <<EnumOfKind("E", around.e)>>]

\* lines 235-239: descriptor_map, in dict order
TopLevel == descriptor_set.message_type \o descriptor_set.enum_type

descriptor_map == [n \in {TopLevel[i].name : i \in 1..Len(TopLevel)} |->
                      (CHOOSE i \in 1..Len(TopLevel) : TopLevel[i].name = n)]

----------------------------------------------------------------------------
(* generate_signatures (lines 229-310).  get_signature recurses; its call  *)
(* stack is explicit.  A frame is one activation on a message: pc is       *)
(* "nested" (loop of line 259), "nested_ret" (line 261 after the call),    *)
(* "field" (loop of line 268), "ret276" and "ret280" (after the calls of   *)
(* lines 276 and 280); i is the index of the loop.                         *)

SigFrame == UNCHANGED <<dataVars, sessVars, searchVars>>

\* lines 241-243
get_enum_sig(enum) ==
    IF enum.allow_alias THEN NoneSig
    ELSE EnumSig({enum.value[i] : i \in 1..Len(enum.value)})

NewFrame(name, proto) ==
    [name |-> name, proto |-> proto, pc |-> "nested", i |-> 1, field_list |-> <<>>,
     oneofs |-> [o \in 1..proto.oneof_decl |-> <<>>]]

Count(name) == IF name \in DOMAIN computed THEN computed[name] ELSE 0

\* control is back in the caller with value v
Returns(v, caller_stack) ==
    /\ ret' = v
    /\ stack' = caller_stack
    /\ g_pc' = IF caller_stack = <<>> THEN "top_ret" ELSE "run"
    /\ g_err' = g_err

Raises(e, caller_stack) ==
    /\ g_pc' = "raised"
    /\ g_err' = e
    /\ stack' = caller_stack
    /\ UNCHANGED <<ret, computed>>

\* get_signature(name, proto) called from caller_stack; given is <<>> when
\* the proto argument is omitted.  Lines 250-255 and 301-302.
Call(name, given, caller_stack) ==
    IF name \in DOMAIN proto2sig_map
    THEN Returns(proto2sig_map[name], caller_stack) /\ UNCHANGED computed
    ELSE IF given = <<>> /\ name \notin DOMAIN descriptor_map
    THEN Raises("KeyError", caller_stack)
    ELSE LET proto == IF given # <<>> THEN given[1] ELSE TopLevel[descriptor_map[name]]
         IN  IF proto.kind = "enum"
             THEN /\ Returns(get_enum_sig(proto), caller_stack)
                  /\ computed' = Put(computed, name, Count(name) + 1)
             ELSE IF Len(caller_stack) >= RecursionLimit
             THEN Raises("RecursionError", caller_stack)
             ELSE /\ stack' = Append(caller_stack, NewFrame(name, proto))
                  /\ computed' = Put(computed, name, Count(name) + 1)
                  /\ g_pc' = "run"
                  /\ UNCHANGED <<ret, g_err>>

top == stack[Len(stack)]

\* the stack with its top frame changed
WithTop(f) == [stack EXCEPT ![Len(stack)] = f]

\* line 304: the loop over descriptor_map is over; lines 309-310
TopDone ==
    /\ SigFrame
    /\ g_pc = "top"
    /\ top_i = Len(TopLevel)
    /\ g_pc' = "done"
    /\ UNCHANGED <<descriptor_set, empty_to_bytes, proto2sig_map, sig2proto_map, top_i,
                   stack, ret, g_err, computed>>

\* line 305
TopCall ==
    /\ SigFrame
    /\ g_pc = "top"
    /\ top_i < Len(TopLevel)
    /\ Call(TopLevel[top_i + 1].name, <<TopLevel[top_i + 1]>>, <<>>)
    /\ UNCHANGED <<descriptor_set, empty_to_bytes, proto2sig_map, sig2proto_map, top_i>>

\* lines 306-307
TopStore ==
    /\ SigFrame
    /\ g_pc = "top_ret"
    /\ LET name == TopLevel[top_i + 1].name
           names == IF ret \in DOMAIN sig2proto_map THEN sig2proto_map[ret] ELSE <<>>
       IN  /\ proto2sig_map' = Put(proto2sig_map, name, ret)
           /\ sig2proto_map' = Put(sig2proto_map, ret, Append(names, name))
    /\ top_i' = top_i + 1
    /\ g_pc' = "top"
    /\ UNCHANGED <<descriptor_set, empty_to_bytes, stack, ret, g_err, computed>>

\* lines 259-261: the call for the next nested message
NestedCall ==
    /\ SigFrame
    /\ g_pc = "run"
    /\ top.pc = "nested"
    /\ top.i <= Len(top.proto.nested_type)
    /\ LET nested_type == top.proto.nested_type[top.i]
           nested_name == top.name \o "." \o nested_type.name
       IN  Call(nested_name, <<nested_type>>, WithTop([top EXCEPT !.pc = "nested_ret"]))
    /\ UNCHANGED <<descriptor_set, empty_to_bytes, proto2sig_map, sig2proto_map, top_i>>

\* line 261: the assignment
NestedStore ==
    /\ SigFrame
    /\ g_pc = "run"
    /\ top.pc = "nested_ret"
    /\ LET nested_name == top.name \o "." \o top.proto.nested_type[top.i].name
       IN  proto2sig_map' = Put(proto2sig_map, nested_name, ret)
    /\ stack' = WithTop([top EXCEPT !.pc = "nested", !.i = @ + 1])
    /\ UNCHANGED <<descriptor_set, empty_to_bytes, sig2proto_map, top_i, ret, g_pc,
                   g_err, computed>>

\* lines 263-266 for the enums in l: only a truthy signature is registered
RECURSIVE RegisterEnumsIn(_, _, _)
RegisterEnumsIn(l, owner, acc) ==
    IF l = <<>> THEN acc
    ELSE LET enum_sig == get_enum_sig(Head(l))
             nested_name == owner \o "." \o Head(l).name
         IN  RegisterEnumsIn(Tail(l), owner,
                [map |-> IF Truthy(enum_sig) THEN Put(acc.map, nested_name, enum_sig)
                         ELSE acc.map,
                 computed |-> Put(acc.computed, nested_name,
                                  (IF nested_name \in DOMAIN acc.computed
                                   THEN acc.computed[nested_name] ELSE 0) + 1)])

\* lines 263-266: the nested messages are done, the nested enums are registered
RegisterEnums ==
    /\ SigFrame
    /\ g_pc = "run"
    /\ top.pc = "nested"
    /\ top.i > Len(top.proto.nested_type)
    /\ LET done == RegisterEnumsIn(top.proto.enum_type, top.name,
                                   [map |-> proto2sig_map, computed |-> computed])
       IN  /\ proto2sig_map' = done.map
           /\ computed' = done.computed
    /\ stack' = WithTop([top EXCEPT !.pc = "field", !.i = 1])
    /\ UNCHANGED <<descriptor_set, empty_to_bytes, sig2proto_map, top_i, ret, g_pc, g_err>>

\* lines 269-271
FieldLabel(field) == IF field.label # "optional" THEN field.label \o " " ELSE ""

\* lines 288-291: the entry goes to its oneof or to the field list
WithEntry(frame, field, field_info) ==
    IF field.oneof_index >= 0
    THEN [frame EXCEPT !.oneofs[field.oneof_index + 1] = Append(@, field_info),
                       !.pc = "field", !.i = @ + 1]
    ELSE [frame EXCEPT !.field_list = Append(@, field_info), !.pc = "field", !.i = @ + 1]

cur_field == top.proto.field[top.i]

\* lines 268-291 for a field without type_name
FieldScalar ==
    /\ SigFrame
    /\ g_pc = "run"
    /\ top.pc = "field"
    /\ top.i <= Len(top.proto.field)
    /\ cur_field.type_name = ""
    /\ stack' = WithTop(WithEntry(top, cur_field,
                                  StrEntry(FieldLabel(cur_field) \o cur_field.type)))
    /\ UNCHANGED <<descriptor_set, empty_to_bytes, proto2sig_map, sig2proto_map, top_i,
                   ret, g_pc, g_err, computed>>

\* lines 275-276: the first call for the type of the field
FieldCall ==
    /\ SigFrame
    /\ g_pc = "run"
    /\ top.pc = "field"
    /\ top.i <= Len(top.proto.field)
    /\ cur_field.type_name # ""
    /\ Call(cur_field.type_name, <<>>, WithTop([top EXCEPT !.pc = "ret276"]))
    /\ UNCHANGED <<descriptor_set, empty_to_bytes, proto2sig_map, sig2proto_map, top_i>>

\* line 277 if only the None signature collapsed
CollapsesToBytes_absent_only(type_sig) == empty_to_bytes /\ type_sig = NoneSig

\* line 277
CollapsesToBytes(type_sig) == empty_to_bytes /\ ~Truthy(type_sig)

\* lines 277-278, 284-291: the type collapses to bytes
FieldBytes ==
    /\ SigFrame
    /\ g_pc = "run"
    /\ top.pc = "ret276"
    /\ CollapsesToBytes(ret)
    /\ stack' = WithTop(WithEntry(top, cur_field, StrEntry(FieldLabel(cur_field) \o "bytes")))
    /\ UNCHANGED <<descriptor_set, empty_to_bytes, proto2sig_map, sig2proto_map, top_i,
                   ret, g_pc, g_err, computed>>

\* lines 279-280: the second call for the type of the field
FieldCallAgain ==
    /\ SigFrame
    /\ g_pc = "run"
    /\ top.pc = "ret276"
    /\ ~CollapsesToBytes(ret)
    /\ Call(cur_field.type_name, <<>>, WithTop([top EXCEPT !.pc = "ret280"]))
    /\ UNCHANGED <<descriptor_set, empty_to_bytes, proto2sig_map, sig2proto_map, top_i>>

\* lines 281-286: the entry of a field whose type was resolved to field_type_sig
FieldInfo(field, field_type_sig) ==
    LET field_type == IF field_type_sig.kind = "map" THEN "map" ELSE field.type
        field_info == FieldLabel(field) \o field_type
    IN  IF Truthy(field_type_sig) THEN FieldTuple(field_info, field_type_sig)
        ELSE StrEntry(field_info)

\* lines 280-291 after the second call
FieldComposite ==
    /\ SigFrame
    /\ g_pc = "run"
    /\ top.pc = "ret280"
    /\ stack' = WithTop(WithEntry(top, cur_field, FieldInfo(cur_field, ret)))
    /\ UNCHANGED <<descriptor_set, empty_to_bytes, proto2sig_map, sig2proto_map, top_i,
                   ret, g_pc, g_err, computed>>

\* lines 293-294
WithOneofs(frame) ==
    frame.field_list \o
        [o \in 1..Len(frame.oneofs) |->
            FieldTuple("oneof", FrozenMultiset(ListToBag(frame.oneofs[o])))]

\* lines 296-299 for the complete field_list; MapEntry(*field_list) takes
\* exactly two arguments
MessageSig_positional(proto, field_list) ==
    IF Len(field_list) = 2
    THEN [err |-> "", sig |-> MapEntry(field_list[1], field_list[2])]
    ELSE [err |-> "", sig |-> FrozenMultiset(ListToBag(field_list))]

MessageSig(proto, field_list) ==
    IF proto.map_entry
    THEN IF Len(field_list) = 2
         THEN [err |-> "", sig |-> MapEntry(field_list[1], field_list[2])]
         ELSE [err |-> "TypeError", sig |-> NoneSig]
    ELSE [err |-> "", sig |-> FrozenMultiset(ListToBag(field_list))]

\* lines 293-299: the loop over the fields is over, the signature is returned
Return ==
    /\ SigFrame
    /\ g_pc = "run"
    /\ top.pc = "field"
    /\ top.i > Len(top.proto.field)
    /\ LET made == MessageSig(top.proto, WithOneofs(top))
           caller_stack == SubSeq(stack, 1, Len(stack) - 1)
       IN  IF made.err # "" THEN Raises(made.err, caller_stack)
           ELSE Returns(made.sig, caller_stack) /\ UNCHANGED computed
    /\ UNCHANGED <<descriptor_set, empty_to_bytes, proto2sig_map, sig2proto_map, top_i>>

InitSig ==
    /\ DataIdle /\ SessIdle /\ SearchIdle
    /\ \E shapes \in ShapeLists, around \in Surroundings :
          \E p \in Permutations(1..Len(shapes)) :
              descriptor_set = DescriptorSet(shapes, p, around)
    /\ empty_to_bytes \in BOOLEAN
    /\ proto2sig_map = <<>>
    /\ sig2proto_map = <<>>
    /\ top_i = 0
    /\ stack = <<>>
    /\ ret = NoneSig
    /\ g_pc = "top"
    /\ g_err = ""
    /\ computed = <<>>

SigNext ==
    \/ TopDone
    \/ TopCall
    \/ TopStore
    \/ NestedCall
    \/ NestedStore
    \/ RegisterEnums
    \/ FieldScalar
    \/ FieldCall
    \/ FieldBytes
    \/ FieldCallAgain
    \/ FieldComposite
    \/ Return

SpecSig == InitSig /\ [][SigNext]_vars

----------------------------------------------------------------------------
(* Claims about signature generation.                                      *)

SigOf(name) == proto2sig_map[name]

\* the map helpers of A and B declare key and value in the same order
SameHelpers ==
    descriptor_set.message_type[1].nested_type = descriptor_set.message_type[2].nested_type

C8_ComputedAtMostOnce ==
    g_pc = "done" => \A name \in DOMAIN computed : computed[name] <= 1

\* every declared type name, nested ones under their dotted name
DeclaredNames ==
    {TopLevel[i].name : i \in 1..Len(TopLevel)} \cup
    UNION {{TopLevel[i].name \o "." \o TopLevel[i].nested_type[j].name :
                j \in 1..Len(TopLevel[i].nested_type)} \cup
           {TopLevel[i].name \o "." \o TopLevel[i].enum_type[j].name :
                j \in 1..Len(TopLevel[i].enum_type)} : i \in 1..Len(TopLevel)}

\* C9: after generate_signatures the registry has an entry for every declared
\* type name, nested enums included (alias-bearing or without values too),
\* and no field that references a declared nested type fails to resolve.
C9_EveryDeclaredNameRegistered ==
    /\ g_pc = "done" => DOMAIN proto2sig_map = DeclaredNames
    /\ g_err # "KeyError"

\* C10: get_signature is never entered for a name that is still in progress
\* (such a call ends with a cyclic-type error), so the recursion is bounded
\* by the number of declared names and never runs into the recursion limit.
C10_ReentryDetected ==
    /\ \A i, j \in 1..Len(stack) : stack[i].name = stack[j].name => i = j
    /\ g_err # "RecursionError"

\* the fields of message `name` that reference a named type
TypedFields(name) ==
    LET proto == TopLevel[descriptor_map[name]]
    IN  {proto.field[i] : i \in {j \in 1..Len(proto.field) : proto.field[j].type_name # ""}}

BytesEntries == {StrEntry(l \o "bytes") : l \in {"", "repeated ", "required "}}

\* an entry that keeps the nested signature
CompositeEntry(field, sig) ==
    FieldTuple(FieldLabel(field) \o (IF sig.kind = "map" THEN "map" ELSE field.type), sig)

\* C11: in a finished registry, a field of A or B that references a named
\* type has the bare entry bytes (with its cardinality prefix) exactly when
\* the option is enabled and the resolved signature is falsy, that is None
\* (alias-bearing enum) or empty (a message without fields, an enum without
\* values); with the option disabled a falsy resolved signature leaves the
\* bare wire-type token; every truthy resolved signature is kept in a
\* composite entry, with token map for a map-entry helper.
C11_BytesWhenFalsyAndEnabled ==
    g_pc = "done" =>
        \A name \in {"A", "B"} :
            /\ \A field \in TypedFields(name) :
                  LET sig == SigOf(field.type_name)
                      entry == IF Truthy(sig) THEN CompositeEntry(field, sig)
                               ELSE IF empty_to_bytes
                               THEN StrEntry(FieldLabel(field) \o "bytes")
                               ELSE StrEntry(FieldLabel(field) \o field.type)
                  IN  BagIn(entry, SigOf(name).elems)
            /\ (\E e \in BytesEntries : BagIn(e, SigOf(name).elems)) =>
                  /\ empty_to_bytes
                  /\ \E field \in TypedFields(name) : ~Truthy(SigOf(field.type_name))

\* with the option enabled, A declares a field of the nested message N, N has
\* no fields, and the finished signature of A holds the bare entry bytes
C11_Witness ==
    /\ g_pc = "done"
    /\ empty_to_bytes
    /\ \E field \in TypedFields("A") :
          /\ field.type_name = "A.N"
          /\ SigOf("A.N") = FrozenMultiset(EmptyBag)
    /\ BagIn(StrEntry("bytes"), SigOf("A").elems)

\* C11 as claimed: the entry is bytes exactly when the resolved signature is
\* None and the option is enabled, and a composite entry keeping the nested
\* signature in every other case (a message without fields, option disabled)
C11_BytesExactlyWhenAbsentAndEnabled ==
    g_pc = "done" =>
        \A name \in {"A", "B"} :
            /\ \A field \in TypedFields(name) :
                  LET sig == SigOf(field.type_name)
                      entry == IF sig = NoneSig /\ empty_to_bytes
                               THEN StrEntry(FieldLabel(field) \o "bytes")
                               ELSE CompositeEntry(field, sig)
                  IN  BagIn(entry, SigOf(name).elems)
            /\ (\E e \in BytesEntries : BagIn(e, SigOf(name).elems)) =>
                  /\ empty_to_bytes
                  /\ \E field \in TypedFields(name) : SigOf(field.type_name) = NoneSig

====
